---------------------------- MODULE Spec2Model ----------------------------
(***************************************************************************)
(* EPOCH dashboard (dashboard.js): report-authenticity scoring, the        *)
(* geospatial similarity index and the scoring-mode arbiter.                *)
(*                                                                         *)
(* Conventions of the model                                                *)
(*   - A JavaScript string is a TLA+ string; `undefined` in a string field *)
(*     is the sentinel Undefined.                                          *)
(*   - A JavaScript number that may be undefined/NaN is a tuple: << >> is  *)
(*     undefined/NaN, <<n>> is the number n.                               *)
(*   - Coordinates are counted in eighths of a degree (0.125 is exact in   *)
(*     binary floating point, so on these inputs the float subtraction of  *)
(*     the code is exact): 0.5 degree is HalfDegree = 4 units.             *)
(*   - Every addend of a score is an integer, so Math.round acts on an     *)
(*     integer and returns it.                                             *)
(***************************************************************************)
EXTENDS Integers, Sequences, FiniteSets, TLC

VARIABLES
    backendConnected,   \* line 7: let backendConnected
    currentHazards,     \* line 96: let currentHazards (array of hazards)
    lastCall,           \* the most recent call of calculateAuthenticityScore
                        \* on the present content of currentHazards, or NoCall
    req,                \* the calls of analyzeReportWithBackend
    heatmapData,        \* the points last handed to L.heatLayer (lines 405, 418)
    pass,               \* the calls of fetchHazardData and of the handlers
                        \* that end in one (quickReport, verifyReport)
    refreshInterval,    \* line 92: let refreshInterval
    timers,             \* the interval timers of the browser: how many
                        \* setInterval has issued, and those scheduled
    modal,              \* the report details modal (#reportDetailModal) and
                        \* the requests sent from it
    state,              \* load_balancer.js, line 20: let state
    balancer            \* load_balancer.js: #redistributeBtn and the calls
                        \* of redistributeLoad, redistributeSingleLine and
                        \* resetSystem

\* the variables of the dashboard around the scorer and the arbiter
\* the report details modal and the page of the load balancer
panels == <<modal, state, balancer>>

dashboard == <<heatmapData, pass, refreshInterval, timers, panels>>

vars == <<backendConnected, currentHazards, lastCall, req, dashboard>>

-----------------------------------------------------------------------------
(* JavaScript values *)

Undefined == "<undefined>"
NaN == << >>
Num(n) == <<n>>

\* a || b on strings: undefined and '' are falsy
OrStr(a, b) == IF a = Undefined \/ a = "" THEN b ELSE a

\* parseFloat(x) || 0 (lines 168, 169): NaN and 0 are falsy
parseFloatOr0(x) == IF x = NaN THEN 0 ELSE x[1]

\* !authenticityScore (lines 645, 996): undefined and 0 are falsy
Falsy(x) == x = NaN \/ x = Num(0)

Abs(n) == IF n < 0 THEN -n ELSE n
Min(a, b) == IF a < b THEN a ELSE b
Max(a, b) == IF a > b THEN a ELSE b

\* String.prototype.includes
includes(s, k) ==
    \E i \in 1..(Len(s) - Len(k) + 1) : SubSeq(s, i, i + Len(k) - 1) = k

toLowerChar(c) ==
    CASE c = "A" -> "a" [] c = "B" -> "b" [] c = "C" -> "c" [] c = "D" -> "d"
      [] c = "E" -> "e" [] c = "F" -> "f" [] c = "G" -> "g" [] c = "H" -> "h"
      [] c = "I" -> "i" [] c = "J" -> "j" [] c = "K" -> "k" [] c = "L" -> "l"
      [] c = "M" -> "m" [] c = "N" -> "n" [] c = "O" -> "o" [] c = "P" -> "p"
      [] c = "Q" -> "q" [] c = "R" -> "r" [] c = "S" -> "s" [] c = "T" -> "t"
      [] c = "U" -> "u" [] c = "V" -> "v" [] c = "W" -> "w" [] c = "X" -> "x"
      [] c = "Y" -> "y" [] c = "Z" -> "z" [] OTHER -> c

\* String.prototype.toLowerCase
RECURSIVE toLowerCase(_)
toLowerCase(s) ==
    IF s = "" THEN ""
    ELSE toLowerChar(SubSeq(s, 1, 1)) \o toLowerCase(SubSeq(s, 2, Len(s)))

-----------------------------------------------------------------------------
(* AUTHENTICITY_CONFIG, lines 99-126 *)

HazardTypes ==
    {"line_break", "overload", "short_circuit", "fallen_line", "power_surge",
     "transformer_failure", "electrical_fire"}

\* AUTHENTICITY_CONFIG.hazardKeywords[hazardType] || []  (line 134)
hazardKeywords(hazardType) ==
    CASE hazardType = "line_break" ->
           <<"line break", "wire down", "cable snap", "power line",
             "conductor", "fallen wire", "broken line", "live wire">>
      [] hazardType = "overload" ->
           <<"overload", "overcurrent", "excessive load", "circuit overload",
             "transformer overload">>
      [] hazardType = "short_circuit" ->
           <<"short circuit", "sparking", "arc flash", "electrical fault",
             "ground fault">>
      [] hazardType = "fallen_line" ->
           <<"fallen line", "sagging wire", "drooping cable",
             "wire touching ground", "line on road">>
      [] hazardType = "power_surge" ->
           <<"power surge", "voltage spike", "electrical surge",
             "surge damage">>
      [] hazardType = "transformer_failure" ->
           <<"transformer", "transformer failure", "transformer blast",
             "transformer fire", "blown transformer">>
      [] hazardType = "electrical_fire" ->
           <<"electrical fire", "fire", "burning", "smoke",
             "flames from pole">>
      [] OTHER -> << >>

\* AUTHENTICITY_CONFIG.locationData, in the order Object.entries yields it
locationData ==
    << <<"thiruvananthapuram",
         {"line_break", "fallen_line", "transformer_failure", "overload"}>>,
       <<"kochi",
         {"line_break", "short_circuit", "transformer_failure",
          "electrical_fire"}>>,
       <<"kozhikode",
         {"line_break", "fallen_line", "overload", "transformer_failure"}>>,
       <<"thrissur", {"line_break", "overload", "transformer_failure"}>>,
       <<"kollam", {"line_break", "fallen_line", "short_circuit"}>>,
       <<"palakkad", {"line_break", "overload", "transformer_failure"}>>,
       <<"malappuram", {"line_break", "fallen_line", "overload"}>>,
       <<"kannur", {"line_break", "transformer_failure", "short_circuit"}>>,
       <<"alappuzha", {"line_break", "fallen_line", "transformer_failure"}>>,
       <<"kottayam", {"line_break", "overload", "short_circuit"}>> >>

weightKeywordMatch == 40
weightLocationMatch == 30
PointsPerKeyword == 15
LongDescription == 50
ShortDescription == 20
LongBonus == 5
ShortPenalty == 10
HalfDegree == 4
ScoreMax == 100

-----------------------------------------------------------------------------
(* The fallback scorer, lines 128-190 *)

\* (report.description || '').toLowerCase()  (line 130)
descriptionOf(report) == toLowerCase(OrStr(report.description, ""))

\* (report.location_name || report.location || '').toLowerCase()  (line 131)
locationOf(report) ==
    toLowerCase(OrStr(report.location_name, OrStr(report.location, "")))

\* (report.hazard_type || report.type || '').toLowerCase()  (line 132)
hazardTypeOf(report) ==
    toLowerCase(OrStr(report.hazard_type, OrStr(report.type, "")))

\* keywords.filter(keyword => description.includes(keyword.toLowerCase())).length
keywordMatches(description, hazardType) ==
    LET keywords == hazardKeywords(hazardType)
    IN  Cardinality({i \in 1..Len(keywords) :
                        includes(description, toLowerCase(keywords[i]))})

\* lines 139-142; a plausible slip of it, used to test the claims
keywordScoreFirstMatchOnly(report) ==
    IF keywordMatches(descriptionOf(report), hazardTypeOf(report)) > 0
    THEN PointsPerKeyword ELSE 0

keywordScoreUncapped(report) ==
    keywordMatches(descriptionOf(report), hazardTypeOf(report))
    * PointsPerKeyword

keywordScore(report) ==
    LET m == keywordMatches(descriptionOf(report), hazardTypeOf(report))
    IN  IF m > 0 THEN Min(weightKeywordMatch, m * PointsPerKeyword) ELSE 0

\* lines 158-165: the first region, in table order, that the location includes
RECURSIVE checkLocationFrom(_, _, _)
checkLocationFrom(i, location, hazardType) ==
    IF i > Len(locationData) THEN TRUE
    ELSE IF includes(location, locationData[i][1])
         THEN hazardType \in locationData[i][2]
         ELSE checkLocationFrom(i + 1, location, hazardType)

\* a plausible slip of it (any region the location includes may allow the
\* type), used to test the claims
checkLocationCompatibilityAnyRegion(location, hazardType) ==
    \/ \A i \in 1..Len(locationData) : ~includes(location, locationData[i][1])
    \/ \E i \in 1..Len(locationData) :
          /\ includes(location, locationData[i][1])
          /\ hazardType \in locationData[i][2]

checkLocationCompatibility(location, hazardType) ==
    checkLocationFrom(1, location, hazardType)

\* lines 144-147
locationScore(report) ==
    IF checkLocationCompatibility(locationOf(report), hazardTypeOf(report))
    THEN weightLocationMatch ELSE 0

\* lines 176-183: does the loop body count this hazard for this report?
\* A NaN difference is not < 0.5.
isSimilar(hazard, report) ==
    /\ hazard.id # report.id
    /\ hazard.lat # NaN
    /\ hazard.lng # NaN
    /\ Abs(hazard.lat[1] - parseFloatOr0(report.latitude)) < HalfDegree
    /\ Abs(hazard.lng[1] - parseFloatOr0(report.longitude)) < HalfDegree
    /\ (hazard.type = report.hazard_type \/ hazard.type = report.type)

\* lines 171-184: similarCount after the forEach over the active set
similarCount(report, hazards) ==
    Cardinality({i \in 1..Len(hazards) : isSimilar(hazards[i], report)})

\* lines 186-189; plausible slips of it, used to test the claims
similarityStepLinear(count) == Min(count, 4) * 10

similarityStepSwapped(count) ==
    IF count >= 3 THEN 30
    ELSE IF count >= 2 THEN 15
    ELSE IF count >= 1 THEN 20
    ELSE 0

similarityStepNoThird(count) ==
    IF count >= 2 THEN 20
    ELSE IF count >= 1 THEN 15
    ELSE 0

similarityStep(count) ==
    IF count >= 3 THEN 30
    ELSE IF count >= 2 THEN 20
    ELSE IF count >= 1 THEN 15
    ELSE 0

\* lines 167-190; the active set it reads is the global currentHazards at the
\* time of the call, passed here as hazards
calculateSimilarReportsScore(report, hazards) ==
    similarityStep(similarCount(report, hazards))

\* lines 152-153; a plausible slip of it (both limits inclusive), used to
\* test the claims
lengthAdjustmentInclusive(report) ==
    LET n == Len(descriptionOf(report))
    IN  (IF n >= LongDescription THEN LongBonus ELSE 0)
        - (IF n <= ShortDescription THEN ShortPenalty ELSE 0)

lengthAdjustment(report) ==
    LET n == Len(descriptionOf(report))
    IN  (IF n > LongDescription THEN LongBonus ELSE 0)
        - (IF n < ShortDescription THEN ShortPenalty ELSE 0)

-----------------------------------------------------------------------------
(* Reports of the store and hazards of the active set *)

\* a report as /api/reports/active returns it (the fields the engine reads)
Report(id, lat, lng, hazardType, description, locationName) ==
    [id |-> id, latitude |-> lat, longitude |-> lng,
     hazard_type |-> hazardType, type |-> Undefined,
     description |-> description,
     location_name |-> locationName, location |-> Undefined,
     severity |-> Num(3), authenticityScore |-> NaN]

\* lines 664-679: the hazard pushed for a report (the fields the engine
\* reads); severityRaw is report.severity ?? report.severity_raw ?? 0, and no
\* report of the model has a severity_raw
toHazard(report, authenticityScore) ==
    [id |-> report.id, lat |-> report.latitude, lng |-> report.longitude,
     type |-> OrStr(report.hazard_type, OrStr(report.type, "line_break")),
     severityRaw |-> IF report.severity = NaN THEN Num(0)
                     ELSE report.severity,
     authenticityScore |-> authenticityScore]

\* Scenario A of the specification: Kochi is at 10.0 N, 76.25 E here
ScenarioA ==
    Report("a", Num(80), Num(610), "line_break", "line break wire down",
           "Kochi")

\* same type, within 0.5 degree of ScenarioA in both coordinates
Near1 == Report("n1", Num(81), Num(610), "line_break", "live wire", "Kochi")
Near2 == Report("n2", Num(80), Num(607), "line_break", "wire down", "Kochi")
Near3 == Report("n3", Num(77), Num(613), "line_break", "cable snap", "Kochi")
\* same type, exactly 0.5 degree north of ScenarioA
Edge == Report("e", Num(84), Num(610), "line_break", "broken line", "Kochi")
\* another type, at ScenarioA's position
Other ==
    Report("o", Num(80), Num(610), "transformer_failure", "transformer blast",
           "Kochi")
\* more than 50 characters, four keywords of its type, compatible region
Rich ==
    Report("rich", Num(80), Num(610), "line_break",
           "Line break: WIRE DOWN and cable snap, live wire across the main road",
           "Marine Drive, Kochi")
\* empty description, a type its region does not allow, far away
Poor == Report("poor", Num(300), Num(20), "power_surge", "", "Kochi")
\* an upper-case type: lower-cased for the keywords, not for the similarity
Upper ==
    Report("up", Num(80), Num(610), "LINE_BREAK", "LINE BREAK near school",
           "KOCHI")
\* no coordinates, a location no region matches
NoGps ==
    Report("g", NaN, NaN, "line_break", "conductor sagging", "Munnar hills")

\* the reports the store answers with
StoreReports == {Near1, Near2, Near3, Edge, Other}

\* the reports a caller other than the loop of fetchHazardData scores
Reports == {ScenarioA, Near1, Rich, Poor, Upper, NoGps}

\* lines 65-69: the report calculateFallbackAuthenticityScore builds; it has
\* no id, no coordinates and always the type 'line_break'
fallbackReport(reportText, location) ==
    [id |-> Undefined, latitude |-> NaN, longitude |-> NaN,
     hazard_type |-> "line_break", type |-> Undefined,
     description |-> reportText,
     location_name |-> location, location |-> Undefined,
     severity |-> NaN, authenticityScore |-> NaN]

\* the (reportText, location) pairs analyzeReportWithBackend is called with:
\* the text of quickReport (lines 590-591), a stored report whose text holds
\* three keywords, and a report without text
AnalyzeInputs ==
    { <<"Quick report from map click - LT line break detected",
        "Location at 10.0000, 76.2500">>,
      <<"line break wire down conductor", "Kochi">>,
      <<"", "">> }

\* reports at 0 N, 0 E, where a report without coordinates is placed by
\* parseFloat(undefined) || 0
Zero1 == Report("z1", Num(0), Num(0), "line_break", "live wire", "")
Zero2 == Report("z2", Num(1), Num(-1), "line_break", "live wire", "")
Zero3 == Report("z3", Num(-3), Num(3), "line_break", "live wire", "")

\* reports whose store record carries a score: 0 and 85
Stored0 ==
    [Report("s0", Num(80), Num(609), "line_break", "live wire", "Kochi")
        EXCEPT !.authenticityScore = Num(0)]
Stored85 ==
    [Report("s85", Num(80), Num(611), "line_break", "cable snap", "Kochi")
        EXCEPT !.authenticityScore = Num(85)]

\* lines 694-734: sampleReports.  A sample has lat, lng and type where a
\* stored report has latitude, longitude and hazard_type.  The coordinates
\* are rounded to the eighth of a degree.
Sample(id, lat, lng, type, severityRaw, description, locationName) ==
    [id |-> id, lat |-> Num(lat), lng |-> Num(lng), type |-> type,
     severityRaw |-> Num(severityRaw), description |-> description,
     location_name |-> locationName]

sampleReports ==
    << Sample("sample_1", 68, 615, "line_break", 4,
              "Major line break detected on LT line near residential area. Wire down and sparking.",
              "Thiruvananthapuram"),
       Sample("sample_2", 79, 610, "transformer_failure", 3,
              "Transformer overload reported. Load shedding required in area.",
              "Kochi"),
       Sample("sample_3", 90, 606, "fallen_line", 2,
              "Fallen LT line near highway. Immediate attention required.",
              "Kozhikode") >>

\* line 737: a sample as calculateAuthenticityScore reads it (no latitude,
\* no longitude, no hazard_type)
sampleAsReport(sample) ==
    [id |-> sample.id, latitude |-> NaN, longitude |-> NaN,
     hazard_type |-> Undefined, type |-> sample.type,
     description |-> sample.description,
     location_name |-> sample.location_name, location |-> Undefined,
     severity |-> NaN, authenticityScore |-> NaN]

\* lines 648-651: the report analyzeReportWithBackend scores on its fallback
\* path when fetchHazardData calls it for a stored report
analyzedReport(report) ==
    fallbackReport(OrStr(report.description, ""),
                   OrStr(report.location_name, OrStr(report.location, "")))

\* every report of the model
AllReports ==
    StoreReports \cup Reports \cup {Zero1, Zero2, Zero3}
    \cup {fallbackReport(input[1], input[2]) : input \in AnalyzeInputs}

\* the further reports fetchHazardData has scored
DashboardReports ==
    {Stored0, Stored85}
    \cup {sampleAsReport(sampleReports[i]) : i \in 1..Len(sampleReports)}
    \cup {analyzedReport(report) : report \in StoreReports \cup {Stored0}}

\* descriptions of 19, 50 and 51 characters (ScenarioA's has 20), without
\* a keyword, in a location no region matches
Len19 ==
    Report("l19", Num(300), Num(20), "line_break", "pole leaning badly.",
           "Munnar")
Len50 ==
    Report("l50", Num(300), Num(20), "line_break",
           "The pole near the school gate is leaning over now.", "Munnar")
Len51 ==
    Report("l51", Num(300), Num(20), "line_break",
           "The pole near the school gate is leaning over now!!", "Munnar")
\* no keyword of its type; three keywords of its type
Plain ==
    Report("k0", Num(300), Num(20), "line_break", "nothing unusual seen here",
           "Munnar")
Three ==
    Report("k3", Num(300), Num(20), "line_break",
           "line break wire down conductor", "Munnar")
\* a type without a keyword list; no type at all
Flood ==
    Report("fl", Num(300), Num(20), "flood", "line break wire down flood",
           "Kochi")
Untyped ==
    Report("ut", Num(300), Num(20), Undefined, "line break wire down flood",
           "Kochi")
\* one keyword of the list inside another
Overlap ==
    Report("ov", Num(300), Num(20), "transformer_failure",
           "transformer failure", "Kochi")
\* locations that hold two region names, kollam before kochi in the text
\* and after it in the table: kochi does not allow fallen_line and kollam
\* does, kochi allows electrical_fire and kollam does not
TwoRegions ==
    Report("r2", Num(300), Num(20), "fallen_line", "line on road",
           "Kollam - Kochi road")
TwoRegionsFire ==
    Report("r3", Num(300), Num(20), "electrical_fire", "smoke",
           "Kollam - Kochi road")
\* no location at all
Nowhere ==
    Report("nw", Num(300), Num(20), "power_surge", "voltage spike", Undefined)

\* the reports that exercise the addends that depend on the text alone
TextReports ==
    {ScenarioA, Rich, Poor, Upper, NoGps, Len19, Len50, Len51, Plain, Three,
     Flood, Untyped, Overlap, TwoRegions, TwoRegionsFire, Nowhere}

MaxHazards == 5

-----------------------------------------------------------------------------
(* calculateAuthenticityScore, lines 128-156 *)

\* The three addends that depend on the report's text alone (lines 134-147,
\* 152-153), computed once for every report of the model.
textScore ==
    [report \in AllReports \cup DashboardReports \cup TextReports |->
        [keyword |-> keywordScore(report),
         location |-> locationScore(report),
         length |-> lengthAdjustment(report)]]

\* the local `score` of calculateAuthenticityScore before line 155
rawScore(report, hazards) ==
    textScore[report].keyword + textScore[report].location
    + calculateSimilarReportsScore(report, hazards) + textScore[report].length

\* line 155; plausible slips of it, used to test the claims
calculateAuthenticityScoreUnclamped(report, hazards) ==
    rawScore(report, hazards)

calculateAuthenticityScoreOnline(report, hazards) ==
    IF backendConnected
    THEN Max(0, Min(ScoreMax, rawScore(report, hazards) - LongBonus))
    ELSE Max(0, Min(ScoreMax, rawScore(report, hazards)))

calculateAuthenticityScore(report, hazards) ==
    Max(0, Min(ScoreMax, rawScore(report, hazards)))

\* lines 642-679 on the path that scores locally: the hazard pushed for a
\* report, scored against the active set built so far unless the store
\* sent a score
scoredHazard(report, hazards) ==
    toHazard(report,
             IF Falsy(report.authenticityScore)
             THEN Num(calculateAuthenticityScore(report, hazards))
             ELSE report.authenticityScore)

\* lines 192-206: the text of the badge
getAuthenticityBadgeStrict(score) ==
    IF score > 70 THEN "Authentic" ELSE "Needs Verification"

getAuthenticityBadge(score) ==
    IF score >= 70 THEN "Authentic" ELSE "Needs Verification"

-----------------------------------------------------------------------------
(* The scorer over every content of the active set *)

NoCall == [called |-> FALSE]

\* a call of calculateAuthenticityScore(report): lines 128-156, reading the
\* global currentHazards (lines 655, 659, 737, 997, 1145, 1460)
ScoreReport(report) ==
    /\ lastCall' =
         [called |-> TRUE, report |-> report, connected |-> backendConnected,
          keyword |-> textScore[report].keyword,
          location |-> textScore[report].location,
          similar |-> calculateSimilarReportsScore(report, currentHazards),
          length |-> textScore[report].length,
          raw |-> rawScore(report, currentHazards),
          score |-> calculateAuthenticityScore(report, currentHazards)]
    /\ UNCHANGED <<backendConnected, currentHazards, req, dashboard>>

\* line 640: currentHazards = []
ClearHazards ==
    /\ currentHazards # << >>
    /\ currentHazards' = << >>
    /\ lastCall' = NoCall
    /\ UNCHANGED <<backendConnected, req, dashboard>>

\* lines 641-680, one iteration of the loop of fetchHazardData on the path
\* that scores locally (line 659): score the report against the active set
\* built so far, then push its hazard
PushHazard(report) ==
    /\ Len(currentHazards) < MaxHazards
    /\ IF backendConnected THEN ~Falsy(report.authenticityScore) ELSE TRUE
    /\ currentHazards' =
         Append(currentHazards, scoredHazard(report, currentHazards))
    /\ lastCall' = NoCall
    /\ UNCHANGED <<backendConnected, req, dashboard>>

\* lines 10-23: checkBackendConnection once its fetch of /health has settled
\* ("ok": 2xx, "notok": another status, "error": the fetch rejected)
ProbeOutcomes == {"ok", "notok", "error"}

checkBackendConnection(outcome) ==
    /\ backendConnected' =
         CASE outcome = "ok" -> TRUE
           [] outcome = "error" -> FALSE
           [] OTHER -> backendConnected
    /\ UNCHANGED <<currentHazards, lastCall, req, dashboard>>

\* line 92: refreshInterval before startAutoRefresh and after
\* stopAutoRefresh (undefined, null); the ids setInterval returns are >= 1
NoTimer == 0

\* no call of setInterval yet
NoTimers == [issued |-> 0, active |-> {}]

\* lines 92-96: no heat layer, no call of fetchHazardData, no timer
\* no report details modal has been shown (lines 1208-1209 find none)
NoModal ==
    [display |-> 0, open |-> FALSE, isPending |-> FALSE,
     verifyBtnDisabled |-> FALSE, rejectBtnDisabled |-> FALSE,
     sent |-> << >>]

\* load_balancer.js, lines 20-30: lines, redistributionCount and
\* beforeRedistribution of `state` (null is << >>)
NoLines == << >>

InitialState ==
    [lines |-> NoLines, redistributionCount |-> 0,
     beforeRedistribution |-> << >>]

\* #redistributeBtn is enabled, no call has been made; `received` counts
\* the redistribute requests that got a 2xx response since the last
\* successful resetSystem
NoCalls == [btnDisabled |-> FALSE, calls |-> << >>, received |-> 0]

PanelsInit ==
    /\ modal = NoModal
    /\ state = InitialState
    /\ balancer = NoCalls

DashboardInit ==
    /\ heatmapData = << >>
    /\ pass = << >>
    /\ refreshInterval = NoTimer
    /\ timers = NoTimers
    /\ PanelsInit

ScorerInit ==
    /\ backendConnected = FALSE
    /\ currentHazards = << >>
    /\ lastCall = NoCall
    /\ req = << >>
    /\ DashboardInit

\* the scorer against every active set of up to MaxHazards hazards
ScorerNext ==
    \/ \E report \in Reports : ScoreReport(report)
    \/ ClearHazards
    \/ \E report \in StoreReports : PushHazard(report)

SpecScorer == ScorerInit /\ [][ScorerNext]_vars

\* the scorer while the reachability flag changes, on the smaller active sets
MaxPureHazards == 2

PureNext ==
    \/ \E report \in Reports : ScoreReport(report)
    \/ ClearHazards
    \/ \E report \in StoreReports :
          Len(currentHazards) < MaxPureHazards /\ PushHazard(report)
    \/ \E outcome \in ProbeOutcomes : checkBackendConnection(outcome)

SpecPure == ScorerInit /\ [][PureNext]_vars

\* the scorer on the reports that exercise the keyword matcher, the location
\* table and the length heuristic
MaxTextHazards == 1

TextNext ==
    \/ \E report \in TextReports : ScoreReport(report)
    \/ ClearHazards
    \/ \E report \in StoreReports :
          Len(currentHazards) < MaxTextHazards /\ PushHazard(report)
    \/ \E outcome \in ProbeOutcomes : checkBackendConnection(outcome)

SpecText == ScorerInit /\ [][TextNext]_vars

-----------------------------------------------------------------------------
(* The scoring-mode arbiter: analyzeReportWithBackend, lines 26-84 *)

\* line 73
classification(score) ==
    IF score >= 70 THEN "Authentic" ELSE "Needs Verification"

\* line 75; a plausible slip of it (the limits are exclusive), used to test
\* the claims
urgencyStrict(score) ==
    IF score > 80 THEN "High" ELSE IF score > 50 THEN "Medium" ELSE "Low"

urgency(score) ==
    IF score >= 80 THEN "High" ELSE IF score >= 50 THEN "Medium" ELSE "Low"

\* the explanation a result carries in its field `analysis`
Analysis(keywordMatch, locationCompatible, similarReports, detectedHazard) ==
    [keywordMatch |-> keywordMatch, locationCompatible |-> locationCompatible,
     similarReports |-> similarReports, detectedHazard |-> detectedHazard]

\* the field `analysis` is undefined
NoAnalysis == [undefined |-> TRUE]

\* lines 64-84: the result object (its score, classification, hazardType,
\* urgency and analysis); the active set is the global currentHazards,
\* passed as hazards
calculateFallbackAuthenticityScore(reportText, location, hazards) ==
    LET score ==
          calculateAuthenticityScore(fallbackReport(reportText, location),
                                     hazards)
    IN  [authenticityScore |-> Num(score),
         classification |-> classification(score),
         hazardType |-> "line_break",
         urgency |-> urgency(score),
         analysis |-> Analysis(FALSE, TRUE, 0, "line_break")]

NoResult ==
    [authenticityScore |-> NaN, classification |-> Undefined,
     hazardType |-> Undefined, urgency |-> Undefined,
     analysis |-> NoAnalysis]

\* The body of a 2xx answer of POST /analyze-report:
\*   kind "invalid": not JSON, response.json() rejects (line 47);
\*   kind "null": the JSON value null, reading analysis.authenticityScore
\*                throws a TypeError (line 49);
\*   kind "object": a JSON object with the fields given (absent: undefined).
Body(kind, authenticityScore, class, hazardType, urg) ==
    [kind |-> kind, authenticityScore |-> authenticityScore,
     classification |-> class, hazardType |-> hazardType, urgency |-> urg,
     analysis |-> NoAnalysis]

NoBody == Body("none", NaN, Undefined, Undefined, Undefined)
InvalidJson == Body("invalid", NaN, Undefined, Undefined, Undefined)
JsonNull == Body("null", NaN, Undefined, Undefined, Undefined)
EmptyObject == Body("object", NaN, Undefined, Undefined, Undefined)
FullAnalysis ==
    [Body("object", Num(85), "Authentic", "line_break", "High")
        EXCEPT !.analysis = Analysis(TRUE, TRUE, 2, "line_break")]

ResponseBodies == {InvalidJson, JsonNull, EmptyObject, FullAnalysis}

\* how the fetch of line 32 settles: a 2xx response, another status, or a
\* rejection (network error)
FetchOutcomes == {"ok", "notok", "error"}

MaxRequests == 1

RequestIds == 1..MaxRequests

NewRequest ==
    [pc |-> "NotStarted", reportText |-> Undefined, location |-> Undefined,
     outcome |-> "none", body |-> NoBody, result |-> NoResult, returns |-> 0]

\* lines 27-29 and 57-60: return calculateFallbackAuthenticityScore(...);
\* a plausible slip of it (the catch block rethrows), used to test the claims
fallbackReturnRethrows(request, hazards) ==
    [request EXCEPT !.pc = "Rejected"]

fallbackReturn(request, hazards) ==
    [request EXCEPT
        !.pc = "FallbackScored",
        !.result = calculateFallbackAuthenticityScore(request.reportText,
                                                      request.location,
                                                      hazards),
        !.returns = @ + 1]

\* lines 47-55: return the object built from the parsed body
remoteReturn(request) ==
    [request EXCEPT
        !.pc = "RemoteScored",
        !.result = [authenticityScore |-> request.body.authenticityScore,
                    classification |-> request.body.classification,
                    hazardType |-> request.body.hazardType,
                    urgency |-> request.body.urgency,
                    analysis |-> request.body.analysis],
        !.returns = @ + 1]

\* lines 26-41: the call, up to its return (line 28) or its first await
\* (line 32), whichever comes first
startAnalysis(request, reportText, location, hazards) ==
    LET called == [request EXCEPT !.reportText = reportText,
                                  !.location = location]
    IN  IF ~backendConnected
        THEN fallbackReturn(called, hazards)
        ELSE [called EXCEPT !.pc = "AwaitFetch"]

analyzeReportWithBackend(i, reportText, location) ==
    /\ req[i].pc = "NotStarted"
    /\ IF i = 1 THEN TRUE ELSE req[i - 1].pc # "NotStarted"
    /\ req' = [req EXCEPT ![i] =
                 startAnalysis(req[i], reportText, location, currentHazards)]
    /\ UNCHANGED <<backendConnected, currentHazards, lastCall,
                 dashboard>>

\* the remote analyzer (or the network) settles the fetch of line 32
FetchSettles(i, outcome) ==
    /\ req[i].pc = "AwaitFetch"
    /\ req' = [req EXCEPT ![i].pc = "FetchSettled", ![i].outcome = outcome]
    /\ UNCHANGED <<backendConnected, currentHazards, lastCall,
                 dashboard>>

\* lines 43-47 and 57-60: the call resumes after `await fetch`
ResumeAfterFetch(i) ==
    /\ req[i].pc = "FetchSettled"
    /\ req' = [req EXCEPT ![i] =
                 IF req[i].outcome = "ok"
                 THEN [req[i] EXCEPT !.pc = "AwaitJson"]
                 ELSE fallbackReturn(req[i], currentHazards)]
    /\ UNCHANGED <<backendConnected, currentHazards, lastCall,
                 dashboard>>

\* the body of the 2xx response arrives: response.json() settles
JsonSettles(i, body) ==
    /\ req[i].pc = "AwaitJson"
    /\ req' = [req EXCEPT ![i].pc = "JsonSettled", ![i].body = body]
    /\ UNCHANGED <<backendConnected, currentHazards, lastCall,
                 dashboard>>

\* lines 47-60: the call resumes after `await response.json()`
ResumeAfterJson(i) ==
    /\ req[i].pc = "JsonSettled"
    /\ req' = [req EXCEPT ![i] =
                 IF req[i].body.kind = "object"
                 THEN remoteReturn(req[i])
                 ELSE fallbackReturn(req[i], currentHazards)]
    /\ UNCHANGED <<backendConnected, currentHazards, lastCall,
                 dashboard>>

\* lines 640-680 on the path that scores locally: the active set
\* fetchHazardData builds from the reports the store answered with
RECURSIVE loadHazards(_, _)
loadHazards(reports, hazards) ==
    IF reports = << >> THEN hazards
    ELSE loadHazards(Tail(reports),
                     Append(hazards, scoredHazard(Head(reports), hazards)))

\* the active sets the arbiter runs against: none, reports around Kochi, and
\* reports at 0 N, 0 E
ArbiterSnapshots ==
    { loadHazards(<< >>, << >>),
      loadHazards(<<Near1, Other>>, << >>),
      loadHazards(<<Zero1, Zero2, Zero3>>, << >>) }

ArbiterInit ==
    /\ backendConnected = FALSE
    /\ currentHazards \in ArbiterSnapshots
    /\ lastCall = NoCall
    /\ req = [i \in RequestIds |-> NewRequest]
    /\ DashboardInit

ArbiterNext ==
    \/ \E outcome \in ProbeOutcomes : checkBackendConnection(outcome)
    \/ \E i \in RequestIds, input \in AnalyzeInputs :
          analyzeReportWithBackend(i, input[1], input[2])
    \/ \E i \in RequestIds, outcome \in FetchOutcomes : FetchSettles(i, outcome)
    \/ \E i \in RequestIds : ResumeAfterFetch(i)
    \/ \E i \in RequestIds, body \in ResponseBodies : JsonSettles(i, body)
    \/ \E i \in RequestIds : ResumeAfterJson(i)

SpecArbiter == ArbiterInit /\ [][ArbiterNext]_vars

\* The event loop runs the continuation of every settled promise; nothing
\* obliges the remote analyzer to answer.
FairArbiter ==
    /\ SpecArbiter
    /\ \A i \in RequestIds :
          WF_vars(ResumeAfterFetch(i)) /\ WF_vars(ResumeAfterJson(i))

-----------------------------------------------------------------------------
(* The heatmap aggregator: createHeatmapData, lines 374-396 *)

\* Intensities and multipliers are counted in hundredths.  Every multiplier
\* is a multiple of 0.05, so severity x multiplier / 5 is a whole number of
\* hundredths.

\* lines 378-387: the keys of typeMultipliers
MultiplierKeys == HazardTypes \cup {"other"}

\* lines 378-387: typeMultipliers, in hundredths
typeMultipliers ==
    [type \in MultiplierKeys |->
        CASE type = "line_break" -> 100
          [] type = "fallen_line" -> 90
          [] type = "transformer_failure" -> 90
          [] type = "short_circuit" -> 80
          [] type = "electrical_fire" -> 95
          [] type = "overload" -> 70
          [] type = "power_surge" -> 60
          [] type = "other" -> 60]

\* line 389: typeMultipliers[hazard.type] || typeMultipliers.other
typeMultiplierOf(type) ==
    IF type \in MultiplierKeys THEN typeMultipliers[type]
    ELSE typeMultipliers["other"]

\* line 376: hazard.severityRaw || 1 (undefined and 0 are falsy)
severityOf(hazard) ==
    IF Falsy(hazard.severityRaw) THEN 1 ELSE hazard.severityRaw[1]

\* lines 376-390; a plausible slip of it (the severity is left out), used to
\* test the claims
intensityOfTypeOnly(hazard) == typeMultiplierOf(hazard.type)

intensityOf(hazard) ==
    (severityOf(hazard) * typeMultiplierOf(hazard.type)) \div 5

\* lines 374-396; a plausible slip of it (the points of severity 1 are
\* dropped), used to test the claims
createHeatmapDataFiltered(hazards) ==
    LET kept == SelectSeq(hazards, LAMBDA hazard : severityOf(hazard) > 1)
    IN  [i \in 1..Len(kept) |->
            <<kept[i].lat, kept[i].lng, intensityOf(kept[i])>>]

createHeatmapData(hazards) ==
    [i \in 1..Len(hazards) |->
        <<hazards[i].lat, hazards[i].lng, intensityOf(hazards[i])>>]

\* lines 398-435, with the map initialised: the old layer is removed and
\* the points of currentHazards are handed to L.heatLayer
updateHeatmap ==
    /\ heatmapData' = createHeatmapData(currentHazards)
    /\ UNCHANGED <<backendConnected, currentHazards, lastCall, req, pass,
                   refreshInterval, timers, panels>>

\* the hazard types a stored report carries: the seven of the dictionary,
\* one the dictionary does not know, and none
HeatTypes == HazardTypes \cup {"flood", Undefined}

\* the severities a stored report carries
HeatSeverities == 0..5

\* a stored report of the given severity and type that carries a score; its
\* position tells the reports apart
HeatReport(severity, hazardType) ==
    [Report("h", Num(80 + severity), Num(600 + Len(hazardType)), hazardType,
            "", "Kochi")
        EXCEPT !.severity = Num(severity), !.authenticityScore = Num(50)]

HeatReports ==
    {HeatReport(severity, hazardType) :
        severity \in HeatSeverities, hazardType \in HeatTypes}

MaxHeatHazards == 2

\* the answers of the store: up to MaxHeatHazards reports
HeatResponses ==
    UNION {[1..n -> HeatReports] : n \in 0..MaxHeatHazards}

\* the active set after fetchHazardData has loaded an answer of the store
HeatInit ==
    /\ backendConnected = FALSE
    /\ currentHazards \in
          {loadHazards(reports, << >>) : reports \in HeatResponses}
    /\ lastCall = NoCall
    /\ req = << >>
    /\ DashboardInit

HeatNext ==
    \/ updateHeatmap
    \/ \E outcome \in ProbeOutcomes : checkBackendConnection(outcome)

SpecHeatmap == HeatInit /\ [][HeatNext]_vars

-----------------------------------------------------------------------------
(* fetchHazardData, lines 626-691, and the handlers that call it *)

\* What apiCall('/api/reports/active?hours=48') hands to line 628 (lines
\* 260-289): it throws when fetch rejects or the status is not 2xx ("error"),
\* otherwise lines 630-638 read the array of reports, which is empty for an
\* answer of an unexpected format.
NoAnswer == [kind |-> "none", reports |-> << >>]
StoreError == [kind |-> "error", reports |-> << >>]
StoreOk(reports) == [kind |-> "ok", reports |-> reports]

\* line 219: showNotification(message, type)
Notification(message, type) == [message |-> message, type |-> type]

\* A call of fetchHazardData or of a handler that ends in one:
\*   pc       where the call stands,
\*   trigger  the handler that made the call,
\*   answer   what the store answered,
\*   k        the index of the report under analysis (line 641),
\*   log      how each report of this call got its score: "stored" (line
\*            642), "local" (line 659, against which active set), "remote"
\*            or "fallback" (line 652, by how analyzeReportWithBackend ended),
\*   shown    the notifications the handler has shown,
\*   failed   the request to the store that failed in this call ("read",
\*            "submit", "verify") or "none", and failedAt, the number of
\*            notifications shown before it failed,
\*   status   the status verifyReport was called with.
IdlePass ==
    [pc |-> "Idle", trigger |-> "none", answer |-> NoAnswer, k |-> 0,
     log |-> << >>, shown |-> << >>, failed |-> "none", failedAt |-> 0,
     status |-> "none"]

NewCall(trigger) == [IdlePass EXCEPT !.trigger = trigger]

\* the calls are numbered in the order they are made
FreeSlot(p) ==
    /\ pass[p].pc = "Idle"
    /\ \A q \in 1..(p - 1) : pass[q].pc # "Idle"

Scored(report, source, score, against) ==
    [id |-> report.id, source |-> source, score |-> score,
     against |-> against]

\* lines 626-628: the call up to `await apiCall(...)`
fetchHazardData(call) ==
    [call EXCEPT !.pc = "AwaitStore", !.answer = NoAnswer, !.k = 0,
                 !.log = << >>]

\* lines 736-743: the samples, each scored against the active set of the
\* moment (line 687 assigns currentHazards after the scoring)
getSampleHazardData(hazards) ==
    [i \in 1..Len(sampleReports) |->
        [id |-> sampleReports[i].id, lat |-> sampleReports[i].lat,
         lng |-> sampleReports[i].lng, type |-> sampleReports[i].type,
         severityRaw |-> sampleReports[i].severityRaw,
         authenticityScore |->
             Num(calculateAuthenticityScore(sampleAsReport(sampleReports[i]),
                                            hazards))]]

\* lines 641-680: the loop from report k on, up to its end or up to the
\* report whose analysis it has to await (line 648); the result is the
\* index it stopped at, the active set and the log (the hazard of a report
\* is bound by a set constructor so that its score is computed once)
RECURSIVE runLoop(_, _, _, _)
runLoop(reports, k, hazards, log) ==
    IF k > Len(reports)
    THEN [k |-> k, hazards |-> hazards, log |-> log]
    ELSE IF Falsy(reports[k].authenticityScore) /\ backendConnected
    THEN [k |-> k, hazards |-> hazards, log |-> log]
    ELSE CHOOSE rest \in
           { runLoop(reports, k + 1, Append(hazards, hazard),
                     Append(log,
                            IF Falsy(reports[k].authenticityScore)
                            THEN Scored(reports[k], "local",
                                        hazard.authenticityScore, hazards)
                            ELSE Scored(reports[k], "stored",
                                        hazard.authenticityScore, << >>))) :
               hazard \in {scoredHazard(reports[k], hazards)} } : TRUE

\* what the handler shows once fetchHazardData has returned to it (lines
\* 1536, 1473); fetchHazardData itself never throws
completion(trigger) ==
    CASE trigger = "refreshButton" ->
           <<Notification("Dashboard refreshed", "success")>>
      [] trigger = "resetFilters" ->
           <<Notification("Filters reset", "success")>>
      [] OTHER -> << >>

\* a request of the call to the store has failed
failure(call, request) ==
    [call EXCEPT !.failed = request, !.failedAt = Len(call.shown)]

\* showNotification(message, type) in the handler of the call
show(call, message, type) ==
    [call EXCEPT !.shown = Append(@, Notification(message, type))]

\* lines 682-683 and 688-689: the call returns to its handler
returned(call) ==
    [call EXCEPT !.pc = "Done", !.shown = @ \o completion(call.trigger)]

\* lines 641-683, from report k on with the active set hazards: run the
\* loop; at its end update the heat layer and return, otherwise call
\* analyzeReportWithBackend for the report it stopped at and await it
\* (`at` is bound by a quantifier so that the loop is computed once)
Proceed(p, k, hazards, log) ==
    \E at \in {runLoop(pass[p].answer.reports, k, hazards, log)} :
    LET reports == pass[p].answer.reports
        call == [pass[p] EXCEPT !.k = at.k, !.log = at.log]
    IN  /\ currentHazards' = at.hazards
        /\ lastCall' = NoCall
        /\ IF at.k > Len(reports)
           THEN /\ heatmapData' = createHeatmapData(at.hazards)
                /\ pass' = [pass EXCEPT ![p] = returned(call)]
                /\ req' = req
           ELSE /\ heatmapData' = heatmapData
                /\ pass' = [pass EXCEPT ![p] =
                              [call EXCEPT !.pc = "AwaitAnalysis"]]
                /\ req' = [req EXCEPT ![p] =
                             startAnalysis(
                                 NewRequest,
                                 OrStr(reports[at.k].description, ""),
                                 OrStr(reports[at.k].location_name,
                                       OrStr(reports[at.k].location, "")),
                                 at.hazards)]
        /\ UNCHANGED <<backendConnected, refreshInterval, timers, panels>>

\* lines 1414-1416: the callback of the timer fires and calls
\* fetchHazardData
Tick(p) ==
    /\ timers.active # {}
    /\ FreeSlot(p)
    /\ pass' = [pass EXCEPT ![p] = fetchHazardData(NewCall("timer"))]
    /\ UNCHANGED <<backendConnected, currentHazards, lastCall, req,
                   heatmapData, refreshInterval, timers, panels>>

\* lines 1471-1472: resetFilters calls fetchHazardData
resetFilters(p) ==
    /\ FreeSlot(p)
    /\ pass' = [pass EXCEPT ![p] = fetchHazardData(NewCall("resetFilters"))]
    /\ UNCHANGED <<backendConnected, currentHazards, lastCall, req,
                   heatmapData, refreshInterval, timers, panels>>

\* the store (or the network) settles the request of line 628; the two
\* awaits of apiCall (lines 272, 273) are one step of the environment
StoreSettles(p, answer) ==
    /\ pass[p].pc = "AwaitStore"
    /\ pass' = [pass EXCEPT ![p].pc = "StoreSettled", ![p].answer = answer]
    /\ UNCHANGED <<backendConnected, currentHazards, lastCall, req,
                   heatmapData, refreshInterval, timers, panels>>

\* lines 630-691: fetchHazardData resumes after `await apiCall(...)`
ResumeAfterStore(p) ==
    /\ pass[p].pc = "StoreSettled"
    /\ IF pass[p].answer.kind = "error"
       THEN /\ currentHazards' = getSampleHazardData(currentHazards)
            /\ heatmapData' = createHeatmapData(currentHazards')
            /\ lastCall' = NoCall
            /\ pass' = [pass EXCEPT ![p] =
                          returned(failure(pass[p], "read"))]
            /\ UNCHANGED <<backendConnected, req, refreshInterval, timers, panels>>
       ELSE Proceed(p, 1, << >>, << >>)

\* lines 652-683: fetchHazardData resumes after
\* `await analyzeReportWithBackend(...)`, pushes the hazard with the score
\* of the analysis onto the active set of the moment and goes on
ResumeAfterAnalysis(p) ==
    /\ pass[p].pc = "AwaitAnalysis"
    /\ req[p].pc \in {"RemoteScored", "FallbackScored"}
    /\ LET report == pass[p].answer.reports[pass[p].k]
           score == req[p].result.authenticityScore
       IN  Proceed(p, pass[p].k + 1,
                   Append(currentHazards, toHazard(report, score)),
                   Append(pass[p].log,
                          Scored(report,
                                 IF req[p].pc = "RemoteScored"
                                 THEN "remote" ELSE "fallback",
                                 score, << >>)))

\* lines 1520-1524: a click on the refresh button, up to
\* `await checkBackendConnection()`; the button is disabled while its
\* handler runs (lines 1521, 1540)
RefreshClick(p) ==
    /\ FreeSlot(p)
    /\ \A q \in DOMAIN pass :
          pass[q].trigger = "refreshButton" => pass[q].pc = "Done"
    /\ pass' = [pass EXCEPT ![p] =
                  [NewCall("refreshButton") EXCEPT !.pc = "AwaitHealth"]]
    /\ UNCHANGED <<backendConnected, currentHazards, lastCall, req,
                   heatmapData, refreshInterval, timers, panels>>

\* lines 10-23 and 1525-1526: the probe settles, checkBackendConnection sets
\* the flag and shows its notification, the handler calls fetchHazardData
ResumeAfterHealth(p, outcome) ==
    /\ pass[p].pc = "AwaitHealth"
    /\ backendConnected' =
         CASE outcome = "ok" -> TRUE
           [] outcome = "error" -> FALSE
           [] OTHER -> backendConnected
    /\ pass' = [pass EXCEPT ![p] =
                  fetchHazardData(
                      CASE outcome = "ok" ->
                             show(pass[p],
                                  "AI Detection System connected successfully!",
                                  "success")
                        [] outcome = "error" ->
                             show(pass[p],
                                  "AI Detection System offline - using fallback scoring",
                                  "warning")
                        [] OTHER -> pass[p])]
    /\ UNCHANGED <<currentHazards, lastCall, req, heatmapData,
                   refreshInterval, timers, panels>>

\* the statuses verifyReport is called with (lines 1292, 1307)
VerifyStatuses == {"verified", "rejected"}

\* lines 1354-1359: verifyReport up to `await apiCall(.../verify)`
verifyCall(status) ==
    [NewCall("verifyReport") EXCEPT !.pc = "AwaitVerify", !.status = status]

verifyReport(p, status) ==
    /\ FreeSlot(p)
    /\ pass' = [pass EXCEPT ![p] = verifyCall(status)]
    /\ UNCHANGED <<backendConnected, currentHazards, lastCall, req,
                   heatmapData, refreshInterval, timers, panels>>

\* how a request that writes to the store settles
WriteOutcomes == {"ok", "error"}

\* the store settles the request of line 1356
VerifySettles(p, outcome) ==
    /\ pass[p].pc = "AwaitVerify"
    /\ pass' = [pass EXCEPT ![p].pc = "VerifySettled",
                            ![p].answer.kind = outcome]
    /\ UNCHANGED <<backendConnected, currentHazards, lastCall, req,
                   heatmapData, refreshInterval, timers, panels>>

\* the display of the modal in which the button that made call p was
\* clicked; 0 when the call was not made from the modal
displayOf(p) ==
    LET clicks == {k \in 1..Len(modal.sent) : modal.sent[k].call = p}
    IN  IF clicks = {} THEN 0
        ELSE modal.sent[CHOOSE k \in clicks : TRUE].display

\* lines 1360-1374: verifyReport resumes; after a success it removes the
\* modal on the page (lines 1361-1366), refreshes the table and the
\* statistics (which catch their own errors) and calls fetchHazardData
\* through window.refreshHazards; after a failure it notifies and returns
\* to the handler of the button, which hides its modal (lines 1293, 1308)
ResumeAfterVerify(p) ==
    /\ pass[p].pc = "VerifySettled"
    /\ pass' = [pass EXCEPT ![p] =
                  IF pass[p].answer.kind = "ok"
                  THEN fetchHazardData(
                           show(pass[p],
                                "Report " \o pass[p].status \o " successfully",
                                "success"))
                  ELSE [show(failure(pass[p], "verify"),
                             "Failed to update report status", "danger")
                           EXCEPT !.pc = "Done"]]
    /\ modal' = IF \/ pass[p].answer.kind = "ok"
                   \/ displayOf(p) = modal.display
                THEN [modal EXCEPT !.open = FALSE]
                ELSE modal
    /\ UNCHANGED <<backendConnected, currentHazards, lastCall, req,
                   heatmapData, refreshInterval, timers, state, balancer>>

\* lines 576-592: quickReport up to `await analyzeReportWithBackend(...)`
quickReport(p) ==
    /\ FreeSlot(p)
    /\ pass' = [pass EXCEPT ![p] =
                  [show(NewCall("quickReport"), "Analyzing report...", "info")
                      EXCEPT !.pc = "AwaitQuickAnalysis"]]
    /\ req' = [req EXCEPT ![p] =
                 startAnalysis(
                     NewRequest,
                     "Quick report from map click - LT line break detected",
                     "Location at 10.0000, 76.2500", currentHazards)]
    /\ UNCHANGED <<backendConnected, currentHazards, lastCall, heatmapData,
                   refreshInterval, timers, panels>>

\* lines 594-602: quickReport resumes with the analysis, shows it and
\* submits the report
ResumeAfterQuickAnalysis(p) ==
    /\ pass[p].pc = "AwaitQuickAnalysis"
    /\ req[p].pc \in {"RemoteScored", "FallbackScored"}
    /\ LET score == req[p].result.authenticityScore
       IN  pass' = [pass EXCEPT ![p] =
                     [show(pass[p], "Report Analysis Complete!",
                           IF score # NaN /\ score[1] >= 70
                           THEN "success" ELSE "warning")
                         EXCEPT !.pc = "AwaitSubmit"]]
    /\ UNCHANGED <<backendConnected, currentHazards, lastCall, req,
                   heatmapData, refreshInterval, timers, panels>>

\* the store settles the request of line 599 ("error": fetch rejected or
\* the status is not 2xx)
SubmitSettles(p, outcome) ==
    /\ pass[p].pc = "AwaitSubmit"
    /\ pass' = [pass EXCEPT ![p].pc = "SubmitSettled",
                            ![p].answer.kind = outcome]
    /\ UNCHANGED <<backendConnected, currentHazards, lastCall, req,
                   heatmapData, refreshInterval, timers, panels>>

\* lines 604-622: quickReport resumes after the submission; a plausible
\* slip of it (the refresh does not depend on the answer), used to test the
\* claims
ResumeAfterSubmitAlways(p) ==
    /\ pass[p].pc = "SubmitSettled"
    /\ pass' = [pass EXCEPT ![p] =
                  fetchHazardData(
                      IF pass[p].answer.kind = "ok"
                      THEN show(pass[p], "Report submitted", "success")
                      ELSE show(failure(pass[p], "submit"),
                                "Failed to submit report", "danger"))]
    /\ UNCHANGED <<backendConnected, currentHazards, lastCall, req,
                   heatmapData, refreshInterval, timers, panels>>

ResumeAfterSubmit(p) ==
    /\ pass[p].pc = "SubmitSettled"
    /\ pass' = [pass EXCEPT ![p] =
                  IF pass[p].answer.kind = "ok"
                  THEN fetchHazardData(
                           show(pass[p], "Report submitted", "success"))
                  ELSE [show(failure(pass[p], "submit"),
                             "Failed to submit report", "danger")
                           EXCEPT !.pc = "Done"]]
    /\ UNCHANGED <<backendConnected, currentHazards, lastCall, req,
                   heatmapData, refreshInterval, timers, panels>>

MaxPasses == 2

PassIds == 1..MaxPasses

\* the answers of the store
StoreAnswers ==
    { StoreError,
      StoreOk(<<Near1, Near2>>),
      StoreOk(<<Stored85, Stored0>>) }

\* lines 1412-1426 have run: the dashboard is initialised, the store had no
\* report, the timer is scheduled
RefreshInit ==
    /\ backendConnected = FALSE
    /\ currentHazards = << >>
    /\ lastCall = NoCall
    /\ req = [p \in PassIds |-> NewRequest]
    /\ heatmapData = << >>
    /\ pass = [p \in PassIds |-> IdlePass]
    /\ refreshInterval = 1
    /\ timers = [issued |-> 1, active |-> {1}]
    /\ PanelsInit

RefreshNext ==
    \/ \E outcome \in ProbeOutcomes : checkBackendConnection(outcome)
    \/ \E p \in PassIds : Tick(p)
    \/ \E p \in PassIds : resetFilters(p)
    \/ \E p \in PassIds, answer \in StoreAnswers : StoreSettles(p, answer)
    \/ \E p \in PassIds : ResumeAfterStore(p)
    \/ \E p \in PassIds, outcome \in FetchOutcomes : FetchSettles(p, outcome)
    \/ \E p \in PassIds : ResumeAfterFetch(p)
    \/ \E p \in PassIds, body \in ResponseBodies : JsonSettles(p, body)
    \/ \E p \in PassIds : ResumeAfterJson(p)
    \/ \E p \in PassIds : ResumeAfterAnalysis(p)

SpecRefresh == RefreshInit /\ [][RefreshNext]_vars

\* The handlers one after the other: a handler starts when the handlers
\* before it have returned.
MaxHandlers == 2

HandlerIds == 1..MaxHandlers

Quiet == \A q \in HandlerIds : pass[q].pc \in {"Idle", "Done"}

StoreInit ==
    /\ backendConnected = FALSE
    /\ currentHazards = << >>
    /\ lastCall = NoCall
    /\ req = [p \in HandlerIds |-> NewRequest]
    /\ heatmapData = << >>
    /\ pass = [p \in HandlerIds |-> IdlePass]
    /\ refreshInterval = 1
    /\ timers = [issued |-> 1, active |-> {1}]
    /\ PanelsInit

StoreNext ==
    \/ \E p \in HandlerIds : Quiet /\ Tick(p)
    \/ \E p \in HandlerIds : Quiet /\ resetFilters(p)
    \/ \E p \in HandlerIds : Quiet /\ RefreshClick(p)
    \/ \E p \in HandlerIds, outcome \in ProbeOutcomes :
          ResumeAfterHealth(p, outcome)
    \/ \E p \in HandlerIds, status \in VerifyStatuses :
          Quiet /\ verifyReport(p, status)
    \/ \E p \in HandlerIds, outcome \in WriteOutcomes :
          VerifySettles(p, outcome)
    \/ \E p \in HandlerIds : ResumeAfterVerify(p)
    \/ \E p \in HandlerIds : Quiet /\ quickReport(p)
    \/ \E p \in HandlerIds : ResumeAfterQuickAnalysis(p)
    \/ \E p \in HandlerIds, outcome \in WriteOutcomes :
          SubmitSettles(p, outcome)
    \/ \E p \in HandlerIds : ResumeAfterSubmit(p)
    \/ \E p \in HandlerIds, answer \in StoreAnswers : StoreSettles(p, answer)
    \/ \E p \in HandlerIds : ResumeAfterStore(p)
    \/ \E p \in HandlerIds, outcome \in FetchOutcomes :
          FetchSettles(p, outcome)
    \/ \E p \in HandlerIds : ResumeAfterFetch(p)
    \/ \E p \in HandlerIds, body \in ResponseBodies : JsonSettles(p, body)
    \/ \E p \in HandlerIds : ResumeAfterJson(p)
    \/ \E p \in HandlerIds : ResumeAfterAnalysis(p)

SpecStore == StoreInit /\ [][StoreNext]_vars

-----------------------------------------------------------------------------
(* The report details modal: showReportDetailsModal, lines 1133-1316 *)

\* a report as /api/reports/{id} returns it (the fields the buttons depend
\* on)
Detail(id, verificationStatus, status) ==
    [id |-> id, verification_status |-> verificationStatus,
     status |-> status]

ModalReports ==
    { Detail("m1", "pending", Undefined),
      Detail("m2", Undefined, "Pending"),
      Detail("m3", Undefined, Undefined),
      Detail("m4", "verified", Undefined),
      Detail("m5", Undefined, "rejected") }

\* line 1205: report.verification_status || report.status || 'pending'
statusOf(report) ==
    OrStr(report.verification_status, OrStr(report.status, "pending"))

\* line 1206
isPending(report) == toLowerCase(statusOf(report)) = "pending"

MaxDisplays == 2

\* lines 1133-1316: the modal on the page, if any, is removed and a new one
\* is shown; Verify and Reject exist, enabled, when the report is pending
\* (lines 1254-1255, 1283)
showReportDetailsModal(report) ==
    /\ modal.display < MaxDisplays
    /\ modal' = [modal EXCEPT !.display = @ + 1,
                              !.open = TRUE,
                              !.isPending = isPending(report),
                              !.verifyBtnDisabled = FALSE,
                              !.rejectBtnDisabled = FALSE]
    /\ UNCHANGED <<backendConnected, currentHazards, lastCall, req,
                   heatmapData, pass, refreshInterval, timers, state,
                   balancer>>

\* a request sent from the modal: the display it was sent from, whether the
\* report shown was pending, the status asked for and the call
Sent(status, p) ==
    [display |-> modal.display, pending |-> modal.isPending,
     status |-> status, call |-> p]

\* lines 1288-1292: a click on Verify, up to the await of verifyReport
\* (line 1356); a disabled button gets no click
ClickVerify(p) ==
    /\ modal.open /\ modal.isPending /\ ~modal.verifyBtnDisabled
    /\ FreeSlot(p)
    /\ modal' = [modal EXCEPT !.verifyBtnDisabled = TRUE,
                              !.sent = Append(@, Sent("verified", p))]
    /\ pass' = [pass EXCEPT ![p] = verifyCall("verified")]
    /\ UNCHANGED <<backendConnected, currentHazards, lastCall, req,
                   heatmapData, refreshInterval, timers, state, balancer>>

\* lines 1303-1307: a click on Reject
ClickReject(p) ==
    /\ modal.open /\ modal.isPending /\ ~modal.rejectBtnDisabled
    /\ FreeSlot(p)
    /\ modal' = [modal EXCEPT !.rejectBtnDisabled = TRUE,
                              !.sent = Append(@, Sent("rejected", p))]
    /\ pass' = [pass EXCEPT ![p] = verifyCall("rejected")]
    /\ UNCHANGED <<backendConnected, currentHazards, lastCall, req,
                   heatmapData, refreshInterval, timers, state, balancer>>

\* lines 1252 and 1271-1273: the modal is dismissed and removed
CloseModal ==
    /\ modal.open
    /\ modal' = [modal EXCEPT !.open = FALSE]
    /\ UNCHANGED <<backendConnected, currentHazards, lastCall, req,
                   heatmapData, pass, refreshInterval, timers, state,
                   balancer>>

MaxClicks == 2

ClickIds == 1..MaxClicks

ModalInit ==
    /\ backendConnected = FALSE
    /\ currentHazards = << >>
    /\ lastCall = NoCall
    /\ req = [p \in ClickIds |-> NewRequest]
    /\ heatmapData = << >>
    /\ pass = [p \in ClickIds |-> IdlePass]
    /\ refreshInterval = NoTimer
    /\ timers = NoTimers
    /\ PanelsInit

ModalNext ==
    \/ \E report \in ModalReports : showReportDetailsModal(report)
    \/ \E p \in ClickIds : ClickVerify(p)
    \/ \E p \in ClickIds : ClickReject(p)
    \/ CloseModal
    \/ \E p \in ClickIds, outcome \in WriteOutcomes : VerifySettles(p, outcome)
    \/ \E p \in ClickIds : ResumeAfterVerify(p)
    \/ \E p \in ClickIds, answer \in StoreAnswers : StoreSettles(p, answer)
    \/ \E p \in ClickIds : ResumeAfterStore(p)

SpecModal == ModalInit /\ [][ModalNext]_vars

-----------------------------------------------------------------------------
(* load_balancer.js: redistributeLoad, redistributeSingleLine and
   resetSystem, lines 460-655 *)

\* the lines of a body (the fields the page reads)
Line(lineId, currentLoad) == [line_id |-> lineId, current_load |-> currentLoad]

\* lines 86-92, initializeMockData: two of its five lines
MockLines == <<Line("LT001", 85), Line("LT002", 65)>>

\* lt_lines after a redistribution and after a reset
BalancedLines == <<Line("LT001", 75), Line("LT002", 75)>>
ResetLines == <<Line("LT001", 50), Line("LT002", 50)>>

\* The body of a 2xx answer:
\*   kind "invalid": not JSON, response.json() rejects;
\*   kind "null": the JSON value null, reading data.lt_lines throws;
\*   kind "object": a JSON object, with the array lt_lines or without it.
LbBody(kind, hasLines, lines) ==
    [kind |-> kind, hasLines |-> hasLines, lt_lines |-> lines]

NoLbBody == LbBody("none", FALSE, NoLines)

LbBodies ==
    { LbBody("invalid", FALSE, NoLines),
      LbBody("null", FALSE, NoLines),
      LbBody("object", FALSE, NoLines),
      LbBody("object", TRUE, NoLines),
      LbBody("object", TRUE, BalancedLines),
      LbBody("object", TRUE, ResetLines) }

Redistributions == {"redistributeLoad", "redistributeSingleLine"}

MaxCalls == 2

\* a call up to its `await fetch(...)` (lines 472, 513, 637)
LbCall(kind) ==
    [kind |-> kind, pc |-> "AwaitFetch", outcome |-> "none",
     body |-> NoLbBody]

\* lines 460-476: a click on #redistributeBtn; a disabled button gets no
\* click
redistributeLoad ==
    /\ ~balancer.btnDisabled
    /\ Len(balancer.calls) < MaxCalls
    /\ balancer' = [balancer EXCEPT
                       !.btnDisabled = TRUE,
                       !.calls = Append(@, LbCall("redistributeLoad"))]
    /\ state' = [state EXCEPT !.beforeRedistribution = state.lines]
    /\ UNCHANGED <<backendConnected, currentHazards, lastCall, req,
                   heatmapData, pass, refreshInterval, timers, modal>>

\* lines 534-535 and 460-476: redistributeLoad called through
\* redistributeAllLoads, whatever the state of the button
redistributeAllLoads ==
    /\ Len(balancer.calls) < MaxCalls
    /\ balancer' = [balancer EXCEPT
                       !.btnDisabled = TRUE,
                       !.calls = Append(@, LbCall("redistributeLoad"))]
    /\ state' = [state EXCEPT !.beforeRedistribution = state.lines]
    /\ UNCHANGED <<backendConnected, currentHazards, lastCall, req,
                   heatmapData, pass, refreshInterval, timers, modal>>

\* lines 507-517: a click on the button of one line (lines 256, 335)
redistributeSingleLine ==
    /\ Len(balancer.calls) < MaxCalls
    /\ balancer' = [balancer EXCEPT
                       !.calls = Append(@, LbCall("redistributeSingleLine"))]
    /\ state' = [state EXCEPT !.beforeRedistribution = state.lines]
    /\ UNCHANGED <<backendConnected, currentHazards, lastCall, req,
                   heatmapData, pass, refreshInterval, timers, modal>>

\* lines 631-640: resetSystem, confirmed
resetSystem ==
    /\ Len(balancer.calls) < MaxCalls
    /\ balancer' = [balancer EXCEPT
                       !.calls = Append(@, LbCall("resetSystem"))]
    /\ UNCHANGED <<backendConnected, currentHazards, lastCall, req,
                   heatmapData, pass, refreshInterval, timers, modal, state>>

\* the backend (or the network) settles the fetch of call c; a redistribute
\* request that gets a 2xx response is counted in `received`
ResponseSettles(c, outcome) ==
    /\ balancer.calls[c].pc = "AwaitFetch"
    /\ balancer' = [balancer EXCEPT
                       !.calls[c].pc = "FetchSettled",
                       !.calls[c].outcome = outcome,
                       !.received =
                           IF /\ outcome = "ok"
                              /\ balancer.calls[c].kind \in Redistributions
                           THEN @ + 1 ELSE @]
    /\ UNCHANGED <<backendConnected, currentHazards, lastCall, req,
                   heatmapData, pass, refreshInterval, timers, modal, state>>

\* the call is over: redistributeLoad re-enables its button in `finally`
\* (lines 499-504)
finished(call, c) ==
    [balancer EXCEPT
        !.calls[c].pc = "Done",
        !.btnDisabled = IF call.kind = "redistributeLoad" THEN FALSE ELSE @]

\* lines 478, 494-498, 519, 528-531, 642, 651-654: the call resumes after
\* `await fetch`: it awaits the body of a 2xx response, and is over
\* otherwise
ResumeAfterResponse(c) ==
    /\ balancer.calls[c].pc = "FetchSettled"
    /\ balancer' =
         IF balancer.calls[c].outcome = "ok"
         THEN [balancer EXCEPT !.calls[c].pc = "AwaitJson"]
         ELSE finished(balancer.calls[c], c)
    /\ UNCHANGED <<backendConnected, currentHazards, lastCall, req,
                   heatmapData, pass, refreshInterval, timers, modal, state>>

\* the body of the 2xx response arrives: response.json() settles
BodySettles(c, body) ==
    /\ balancer.calls[c].pc = "AwaitJson"
    /\ balancer' = [balancer EXCEPT !.calls[c].pc = "JsonSettled",
                                    !.calls[c].body = body]
    /\ UNCHANGED <<backendConnected, currentHazards, lastCall, req,
                   heatmapData, pass, refreshInterval, timers, modal, state>>

\* lines 479-481 and 520-522: state after a redistribution has answered
\* with the object body
redistributed(body) ==
    [state EXCEPT
        !.lines = IF body.hasLines THEN body.lt_lines ELSE @,
        !.redistributionCount = @ + 1]

\* lines 643-646: state after a reset has answered with the object body
wasReset(body) ==
    [lines |-> IF body.hasLines THEN body.lt_lines ELSE NoLines,
     redistributionCount |-> 0,
     beforeRedistribution |-> << >>]

\* lines 479-504, 520-531, 643-654: the call resumes after
\* `await response.json()`; a body that is not an object throws into the
\* catch block, which only logs
ResumeAfterBody(c) ==
    /\ balancer.calls[c].pc = "JsonSettled"
    /\ LET call == balancer.calls[c]
       IN  /\ state' =
                IF call.body.kind # "object" THEN state
                ELSE IF call.kind = "resetSystem" THEN wasReset(call.body)
                ELSE redistributed(call.body)
           /\ balancer' =
                [finished(call, c) EXCEPT
                    !.received =
                        IF /\ call.body.kind = "object"
                           /\ call.kind = "resetSystem"
                        THEN 0 ELSE @]
    /\ UNCHANGED <<backendConnected, currentHazards, lastCall, req,
                   heatmapData, pass, refreshInterval, timers, modal>>

\* lines 20-30 and 48-92: the page after initializeApp, with no line yet or
\* with the mock lines
BalancerInit ==
    /\ backendConnected = FALSE
    /\ currentHazards = << >>
    /\ lastCall = NoCall
    /\ req = << >>
    /\ heatmapData = << >>
    /\ pass = << >>
    /\ refreshInterval = NoTimer
    /\ timers = NoTimers
    /\ modal = NoModal
    /\ state \in {InitialState, [InitialState EXCEPT !.lines = MockLines]}
    /\ balancer = NoCalls

BalancerNext ==
    \/ redistributeLoad
    \/ redistributeAllLoads
    \/ redistributeSingleLine
    \/ resetSystem
    \/ \E c \in 1..Len(balancer.calls), outcome \in FetchOutcomes :
          ResponseSettles(c, outcome)
    \/ \E c \in 1..Len(balancer.calls) : ResumeAfterResponse(c)
    \/ \E c \in 1..Len(balancer.calls), body \in LbBodies :
          BodySettles(c, body)
    \/ \E c \in 1..Len(balancer.calls) : ResumeAfterBody(c)

SpecBalancer == BalancerInit /\ [][BalancerNext]_vars

-----------------------------------------------------------------------------
(* The periodic refresh: startAutoRefresh and stopAutoRefresh, lines 1412-1430 *)

\* line 1429: the timers after stopAutoRefresh; a plausible slip of it
\* (refreshInterval is reset without clearInterval), used to test the claims
timersAfterStopKept == timers

timersAfterStop ==
    IF refreshInterval # NoTimer
    THEN [timers EXCEPT !.active = @ \ {refreshInterval}]
    ELSE timers

MaxTimers == 2

\* lines 1412-1426: stopAutoRefresh(), then setInterval issues the next id
\* and schedules it
startAutoRefresh ==
    /\ timers.issued < MaxTimers
    /\ timers' = [issued |-> timers.issued + 1,
                  active |-> timersAfterStop.active \cup {timers.issued + 1}]
    /\ refreshInterval' = timers.issued + 1
    /\ UNCHANGED <<backendConnected, currentHazards, lastCall, req,
                   heatmapData, pass, panels>>

\* lines 1428-1430
stopAutoRefresh ==
    /\ timers' = timersAfterStop
    /\ refreshInterval' = NoTimer
    /\ UNCHANGED <<backendConnected, currentHazards, lastCall, req,
                   heatmapData, pass, panels>>

MaxRuns == 2

RunIds == 1..MaxRuns

\* line 1557 is about to run: the dashboard is initialised, no timer yet
TimerInit ==
    /\ backendConnected = FALSE
    /\ currentHazards = << >>
    /\ lastCall = NoCall
    /\ req = [p \in RunIds |-> NewRequest]
    /\ heatmapData = << >>
    /\ pass = [p \in RunIds |-> IdlePass]
    /\ refreshInterval = NoTimer
    /\ timers = NoTimers
    /\ PanelsInit

TimerNext ==
    \/ startAutoRefresh
    \/ stopAutoRefresh
    \/ \E p \in RunIds : Tick(p)
    \/ \E p \in RunIds, answer \in StoreAnswers : StoreSettles(p, answer)
    \/ \E p \in RunIds : ResumeAfterStore(p)

SpecTimer == TimerInit /\ [][TimerNext]_vars

\* The event loop runs the continuation of a settled request; nothing
\* obliges the store to answer or the timer to fire.
FairTimer ==
    /\ SpecTimer
    /\ \A p \in RunIds : WF_vars(ResumeAfterStore(p))

-----------------------------------------------------------------------------
(* Section 4.3 of the specification, stated independently of the code *)

\* hazard corroborates the candidate report: same hazard type, another id,
\* within 0.5 degree of the candidate in latitude and in longitude
Corroborates(hazard, report) ==
    /\ hazard.type = report.hazard_type
    /\ hazard.id # report.id
    /\ report.latitude # NaN /\ report.longitude # NaN
    /\ hazard.lat # NaN /\ hazard.lng # NaN
    /\ Abs(hazard.lat[1] - report.latitude[1]) < HalfDegree
    /\ Abs(hazard.lng[1] - report.longitude[1]) < HalfDegree

CorroboratingCount(report, hazards) ==
    Cardinality({i \in 1..Len(hazards) : Corroborates(hazards[i], report)})

\* >= 3 matches -> 30 pts, 2 -> 20, 1 -> 15, 0 -> 0
SaturatingStep(n) ==
    CASE n = 0 -> 0 [] n = 1 -> 15 [] n = 2 -> 20 [] OTHER -> 30

Front(seq) == SubSeq(seq, 1, Len(seq) - 1)
Last(seq) == seq[Len(seq)]

-----------------------------------------------------------------------------
(* Claims *)

\* C1: for every report and every content of the active set,
\* calculateAuthenticityScore returns an integer in 0..100.
C1_ScoreInRange ==
    lastCall.called => lastCall.score \in 0..100

\* the scorer was called where the sum of the addends exceeds 100
C1_Witness ==
    lastCall.called /\ lastCall.raw > 100 /\ lastCall.score = 100

C6_Monotone ==
    [][\A report \in AllReports :
          (/\ currentHazards' # << >>
           /\ Front(currentHazards') = currentHazards
           /\ Corroborates(Last(currentHazards'), report))
          => calculateSimilarReportsScore(report, currentHazards')
                >= calculateSimilarReportsScore(report, currentHazards)]_vars

\* the hazard pushed last corroborates ScenarioA and raised its similarity
\* contribution
C6_Witness ==
    /\ currentHazards # << >>
    /\ Corroborates(Last(currentHazards), ScenarioA)
    /\ calculateSimilarReportsScore(ScenarioA, currentHazards)
         > calculateSimilarReportsScore(ScenarioA, Front(currentHazards))

\* C7: the similarity contribution is 0, 15, 20 for 0, 1, 2 corroborating
\* reports and exactly 30 for every number from 3 on.
C7_SaturatingStep ==
    \A report \in AllReports :
        calculateSimilarReportsScore(report, currentHazards)
            = SaturatingStep(CorroboratingCount(report, currentHazards))

\* a report with five corroborating reports was scored and got 30
C7_Witness ==
    /\ lastCall.called
    /\ CorroboratingCount(lastCall.report, currentHazards) = 5
    /\ lastCall.similar = 30

\* ScenarioA was scored against an active set holding n reports that
\* corroborate it
ScenarioScored(n) ==
    /\ lastCall.called
    /\ lastCall.report = ScenarioA
    /\ CorroboratingCount(ScenarioA, currentHazards) = n

\* C9 as the specification states it: Scenario A yields keyword 15,
\* location 30, similarity 0, length 0, score 45, "Needs Verification".
C9_AsStated ==
    ScenarioScored(0) =>
        /\ lastCall.keyword = 15 /\ lastCall.location = 30
        /\ lastCall.similar = 0 /\ lastCall.length = 0
        /\ lastCall.score = 45
        /\ getAuthenticityBadge(lastCall.score) = "Needs Verification"

\* C9, amended: "line break wire down" holds two keywords of line_break
\* ("line break" and "wire down"), so Scenario A yields keyword 30,
\* location 30, similarity 0, length 0, score 60, "Needs Verification".
C9_ScenarioA ==
    ScenarioScored(0) =>
        /\ lastCall.keyword = 30 /\ lastCall.location = 30
        /\ lastCall.similar = 0 /\ lastCall.length = 0
        /\ lastCall.score = 60
        /\ getAuthenticityBadge(lastCall.score) = "Needs Verification"

\* Scenario A was scored against a non-empty active set none of whose
\* hazards corroborates it
C9_Witness ==
    ScenarioScored(0) /\ currentHazards # << >>

\* C10 as the specification states it: Scenario B (Scenario A with exactly
\* three corroborating reports) yields score 75, "Authentic".
C10_AsStated ==
    ScenarioScored(3) =>
        /\ lastCall.score = 75
        /\ getAuthenticityBadge(lastCall.score) = "Authentic"

\* C10, amended: Scenario B yields 30 + 30 + 30 + 0 = 90, "Authentic".
C10_ScenarioB ==
    ScenarioScored(3) =>
        /\ lastCall.keyword = 30 /\ lastCall.location = 30
        /\ lastCall.similar = 30 /\ lastCall.length = 0
        /\ lastCall.score = 90
        /\ getAuthenticityBadge(lastCall.score) = "Authentic"

\* Scenario B was scored: three corroborating reports of three different ids
C10_Witness ==
    /\ ScenarioScored(3)
    /\ Cardinality({currentHazards[i].id : i \in 1..Len(currentHazards)}) >= 3
    /\ Len(currentHazards) = 3

\* the terminal states of a call, and all the states it may be in
Terminal == {"RemoteScored", "FallbackScored"}

RequestStates ==
    {"NotStarted", "AwaitFetch", "FetchSettled", "AwaitJson", "JsonSettled"}
    \cup Terminal

\* C2, safety: a call is in one of its states; it has returned exactly once
\* when it is terminal and not at all before; a RemoteScored call carries
\* the object built from the body and nothing of the fallback scorer, a
\* FallbackScored call the fallback scorer's result.
C2_OneResult ==
    \A i \in RequestIds :
        /\ req[i].pc \in RequestStates
        /\ req[i].returns = (IF req[i].pc \in Terminal THEN 1 ELSE 0)
        /\ req[i].pc \notin Terminal => req[i].result = NoResult
        /\ req[i].pc = "RemoteScored" =>
              /\ req[i].outcome = "ok" /\ req[i].body.kind = "object"
              /\ req[i].result.authenticityScore
                    = req[i].body.authenticityScore
        /\ req[i].pc = "FallbackScored" =>
              req[i].result =
                  calculateFallbackAuthenticityScore(req[i].reportText,
                                                     req[i].location,
                                                     currentHazards)

\* C2: every call of analyzeReportWithBackend ends in exactly one terminal
\* state, RemoteScored or FallbackScored: C2_OneResult always holds, a
\* terminal call never changes again, and once the remote outcome is there
\* (a non-2xx response or a network error; the body of a 2xx response) the
\* call reaches a terminal state.
C2_ExactlyOneTerminal ==
    /\ []C2_OneResult
    /\ [][\A i \in RequestIds :
            req[i].pc \in Terminal => req'[i] = req[i]]_vars
    /\ \A i \in RequestIds :
          /\ (req[i].pc = "FetchSettled" /\ req[i].outcome # "ok")
                ~> (req[i].pc = "FallbackScored")
          /\ (req[i].pc = "JsonSettled") ~> (req[i].pc \in Terminal)

\* a call made with the flag set got a non-2xx response and ended
\* FallbackScored, having returned once
C2_Witness ==
    \E i \in RequestIds :
        /\ req[i].pc = "FallbackScored"
        /\ req[i].outcome = "notok"
        /\ req[i].returns = 1

\* C3 as the specification states it: a call that waits for the remote
\* analyzer does not wait for ever; it completes (with the fallback result
\* when the analyzer has not answered).
C3_AsStated ==
    \A i \in RequestIds :
        (req[i].pc = "AwaitFetch") ~> (req[i].pc # "AwaitFetch")

\* a 2xx body of an unexpected shape: not JSON, or JSON without
\* authenticityScore or without classification
Malformed(body) ==
    \/ body.kind \in {"invalid", "null"}
    \/ body.kind = "object"
       /\ (body.authenticityScore = NaN \/ body.classification = Undefined)

\* C4 as the specification states it: a call whose 2xx response had a
\* malformed body ends FallbackScored with the fallback scorer's result.
C4_AsStated ==
    \A i \in RequestIds :
        (req[i].pc \in Terminal /\ Malformed(req[i].body)) =>
            /\ req[i].pc = "FallbackScored"
            /\ req[i].result =
                  calculateFallbackAuthenticityScore(req[i].reportText,
                                                     req[i].location,
                                                     currentHazards)

\* C8: the classification of a fallback result is "Authentic" from 70 on
\* and "Needs Verification" up to 69, and it is the text getAuthenticityBadge
\* gives its score; the two agree on every score in 0..100.
C8_Classification ==
    /\ \A i \in RequestIds :
          req[i].pc = "FallbackScored" =>
              LET score == req[i].result.authenticityScore[1]
              IN  /\ req[i].result.classification
                        = (IF score >= 70 THEN "Authentic"
                           ELSE "Needs Verification")
                  /\ req[i].result.classification
                        = getAuthenticityBadge(score)
    /\ \A score \in 0..100 :
          /\ classification(score) = getAuthenticityBadge(score)
          /\ score >= 70 => classification(score) = "Authentic"
          /\ score <= 69 => classification(score) = "Needs Verification"

\* a fallback result with the score 70, classified "Authentic"
C8_Witness ==
    \E i \in RequestIds :
        /\ req[i].pc = "FallbackScored"
        /\ req[i].result.authenticityScore = Num(70)
        /\ req[i].result.classification = "Authentic"

\* the heat layer shows the points of the present active set
HeatmapShown ==
    /\ currentHazards # << >>
    /\ Len(heatmapData) = Len(currentHazards)

\* C11: Scenario C: a hazard of severity 5 and type "line_break" gets
\* intensity 1.0 (100 hundredths), a hazard of severity 1 and type
\* "power_surge" gets intensity 0.12 (12 hundredths).
C11_ScenarioC ==
    HeatmapShown =>
        \A i \in 1..Len(currentHazards) :
            /\ (/\ currentHazards[i].severityRaw = Num(5)
                /\ currentHazards[i].type = "line_break")
                  => heatmapData[i][3] = 100
            /\ (/\ currentHazards[i].severityRaw = Num(1)
                /\ currentHazards[i].type = "power_surge")
                  => heatmapData[i][3] = 12

\* the heat layer shows the two hazards of Scenario C
C11_Witness ==
    /\ HeatmapShown
    /\ Len(currentHazards) = 2
    /\ currentHazards[1].severityRaw = Num(5)
    /\ currentHazards[1].type = "line_break"
    /\ currentHazards[2].severityRaw = Num(1)
    /\ currentHazards[2].type = "power_surge"
    /\ heatmapData[1][3] = 100 /\ heatmapData[2][3] = 12

\* C20: createHeatmapData returns one point per hazard of its input, in the
\* order of the input, with the hazard's lat and lng; for a severity in 1..5
\* and a type of the dictionary the intensity is (severity / 5) x the
\* multiplier of the type; the result is the same whatever the rest of the
\* state is.
C20_FullActiveSet ==
    LET points == createHeatmapData(currentHazards)
    IN  /\ Len(points) = Len(currentHazards)
        /\ \A i \in 1..Len(currentHazards) :
              /\ points[i][1] = currentHazards[i].lat
              /\ points[i][2] = currentHazards[i].lng
              /\ (/\ currentHazards[i].severityRaw[1] \in 1..5
                  /\ currentHazards[i].type \in HazardTypes)
                    => 5 * points[i][3]
                         = currentHazards[i].severityRaw[1]
                           * typeMultipliers[currentHazards[i].type]
        /\ HeatmapShown => heatmapData = points

\* the heat layer shows two hazards, the first of severity 1, of two
\* different types of the dictionary, after the flag has changed
C20_Witness ==
    /\ HeatmapShown
    /\ backendConnected
    /\ Len(currentHazards) = 2
    /\ currentHazards[1].severityRaw = Num(1)
    /\ currentHazards[1].type = "electrical_fire"
    /\ currentHazards[2].severityRaw = Num(4)
    /\ currentHazards[2].type = "overload"
    /\ heatmapData[1] = <<Num(81), currentHazards[1].lng, 19>>
    /\ heatmapData[2][3] = 56

\* the report a call of fetchHazardData has under analysis
UnderAnalysis(p) == pass[p].answer.reports[pass[p].k]

\* C12 as the specification states it: with the remote analyzer
\* unavailable, a call of analyzeReportWithBackend made with the flag set
\* ends with the result a call made with the flag clear returns
\* (calculateFallbackAuthenticityScore on the same active set), and the score
\* fetchHazardData gets for a report with the flag set is the score it
\* gives the report with the flag clear (calculateAuthenticityScore of the
\* report on the same active set).
C12_AsStated ==
    [][\A p \in PassIds :
          (/\ pass[p].pc = "AwaitAnalysis"
           /\ req[p].pc # "FallbackScored"
           /\ req'[p].pc = "FallbackScored")
          => /\ req'[p].result =
                  calculateFallbackAuthenticityScore(req[p].reportText,
                                                     req[p].location,
                                                     currentHazards)
             /\ req'[p].result.authenticityScore =
                  Num(calculateAuthenticityScore(UnderAnalysis(p),
                                                 currentHazards))]_vars

\* C13 as the specification states it: a report whose store record carries
\* a score (0 included) is not scored again by fetchHazardData, and the
\* hazard pushed for it carries the stored score.
C13_AsStated ==
    \A p \in PassIds :
        \A j \in 1..Len(pass[p].log) :
            pass[p].answer.reports[j].authenticityScore # NaN =>
                /\ pass[p].log[j].source = "stored"
                /\ pass[p].log[j].score
                      = pass[p].answer.reports[j].authenticityScore

\* C14 as the specification states it: every hazard of the active set has
\* an authenticityScore that is an integer in 0..100.
C14_AsStated ==
    \A i \in 1..Len(currentHazards) :
        /\ currentHazards[i].authenticityScore # NaN
        /\ currentHazards[i].authenticityScore[1] \in 0..100

\* C15 as the specification states it: the reports one call of
\* fetchHazardData scores locally are all scored against the same active
\* set.
C15_AsStated ==
    \A p \in PassIds :
        \A i, j \in 1..Len(pass[p].log) :
            (/\ pass[p].log[i].source = "local"
             /\ pass[p].log[j].source = "local")
            => pass[p].log[i].against = pass[p].log[j].against

\* C16 as the specification states it: no two calls of fetchHazardData
\* await the analysis of the same report at the same time.
C16_AsStated ==
    \A p, q \in PassIds :
        (/\ p # q
         /\ pass[p].pc = "AwaitAnalysis"
         /\ pass[q].pc = "AwaitAnalysis")
        => UnderAnalysis(p).id # UnderAnalysis(q).id

\* the types of notification that tell the user of a failure
FailureTypes == {"danger", "error", "warning"}

\* the call showed a failure after its request to the store had failed
Surfaced(call) ==
    \E j \in (call.failedAt + 1)..Len(call.shown) :
        call.shown[j].type \in FailureTypes

\* C17 as the specification states it: a handler whose request to the store
\* failed (reading the active reports, submitting, verifying) has told the
\* user by the time it returns, and after a failed read the timer does not
\* send the read again by itself.
C17_AsStated ==
    /\ [](\A p \in HandlerIds :
            (pass[p].pc = "Done" /\ pass[p].failed # "none")
                => Surfaced(pass[p]))
    /\ [][\A p \in HandlerIds :
            (/\ pass[p].pc = "Idle"
             /\ pass'[p].pc = "AwaitStore"
             /\ pass'[p].trigger = "timer")
            => \A q \in HandlerIds : pass[q].failed # "read"]_vars

\* C18 as the specification states it: the explanation of a fallback
\* result tells what the scorer used for its score: whether a keyword
\* matched, whether the location is compatible with the hazard type, and how
\* many reports of the active set corroborate.
C18_AsStated ==
    \A i \in RequestIds :
        req[i].pc = "FallbackScored" =>
            LET report == fallbackReport(req[i].reportText, req[i].location)
                analysis == req[i].result.analysis
            IN  /\ analysis.keywordMatch = (textScore[report].keyword > 0)
                /\ analysis.locationCompatible
                      = (textScore[report].location > 0)
                /\ analysis.similarReports
                      = similarCount(report, currentHazards)

\* C19: after any sequence of startAutoRefresh and stopAutoRefresh at most
\* one timer is scheduled (the one refreshInterval names, none after
\* stopAutoRefresh); no run of the timer begins while none is scheduled;
\* stopAutoRefresh leaves every run in flight and the active set as they
\* are; and a run whose answer from the store has arrived completes its
\* update of the active set.
C19_Cancellation ==
    /\ [](/\ Cardinality(timers.active) <= 1
          /\ refreshInterval = NoTimer => timers.active = {}
          /\ refreshInterval # NoTimer => timers.active = {refreshInterval})
    /\ [][\A p \in RunIds :
            (pass[p].pc = "Idle" /\ pass'[p].pc # "Idle")
                => refreshInterval # NoTimer]_vars
    /\ [][(refreshInterval # NoTimer /\ refreshInterval' = NoTimer)
            => (pass' = pass /\ currentHazards' = currentHazards)]_vars
    /\ \A p \in RunIds :
          (pass[p].pc = "StoreSettled") ~> (pass[p].pc = "Done")

\* the timer was stopped while a run it started was in flight, and a second
\* timer had been started before
C19_Witness ==
    /\ refreshInterval = NoTimer
    /\ timers.issued = 2
    /\ \E p \in RunIds :
          pass[p].pc = "StoreSettled" /\ pass[p].trigger = "timer"

-----------------------------------------------------------------------------
(* Sections 4.1, 4.2 and 4.4 of the specification, stated independently of
   the code, for the reports of TextReports *)

\* the declared hazard type and the texts of a report, case folded
DeclaredType(report) ==
    toLowerCase(IF report.hazard_type # Undefined THEN report.hazard_type
                ELSE IF report.type # Undefined THEN report.type ELSE "")

DescriptionText(report) ==
    IF report.description = Undefined THEN "" ELSE report.description

LocationText(report) ==
    IF report.location_name # Undefined THEN report.location_name
    ELSE IF report.location # Undefined THEN report.location ELSE ""

\* the number of keywords of the declared type's list that occur in the
\* description, whatever the case of either
KeywordCount ==
    [report \in TextReports |->
        LET list == hazardKeywords(DeclaredType(report))
        IN  Cardinality({i \in 1..Len(list) :
                includes(toLowerCase(DescriptionText(report)),
                         toLowerCase(list[i]))})]

\* the regions, by their place in the table, whose name occurs in the
\* location name
MatchingRegions ==
    [report \in TextReports |->
        {i \in 1..Len(locationData) :
            includes(toLowerCase(LocationText(report)), locationData[i][1])}]

\* the first of them in table order allows the declared type, or there is
\* none
Compatible(report) ==
    LET regions == MatchingRegions[report]
    IN  \/ regions = {}
        \/ LET first == CHOOSE i \in regions : \A j \in regions : i <= j
           IN  DeclaredType(report) \in locationData[first][2]

DescriptionLength ==
    [report \in TextReports |-> Len(DescriptionText(report))]

Clamp(low, high, n) == IF n < low THEN low ELSE IF n > high THEN high ELSE n

\* C21: the fallback score is clamp(0, 100, keyword + location + similarity
\* + lengthAdjustment), where lengthAdjustment is +5 for a description of
\* more than 50 characters, -10 for one of fewer than 20 and 0 for 20..50.
C21_ClampedSum ==
    lastCall.called =>
        LET n == DescriptionLength[lastCall.report]
            adjustment == IF n > 50 THEN 5 ELSE IF n < 20 THEN -10 ELSE 0
        IN  /\ lastCall.length = adjustment
            /\ n \in 20..50 => lastCall.length = 0
            /\ lastCall.score =
                  Clamp(0, 100, lastCall.keyword + lastCall.location
                                + lastCall.similar + adjustment)

\* a description of exactly 50 characters was scored without adjustment
\* against a non-empty active set
C21_Witness ==
    /\ lastCall.called
    /\ DescriptionLength[lastCall.report] = 50
    /\ lastCall.length = 0
    /\ currentHazards # << >>

\* C22: the keyword contribution is min(40, 15 x m), m the number of
\* keywords of the declared type's list that occur in the description
\* whatever the case; it is 0 when none occurs or the type has no list, and
\* only takes the values 0, 15, 30, 40.
C22_KeywordContribution ==
    lastCall.called =>
        LET m == KeywordCount[lastCall.report]
        IN  /\ lastCall.keyword = Min(40, 15 * m)
            /\ lastCall.keyword \in {0, 15, 30, 40}
            /\ m = 0 => lastCall.keyword = 0
            /\ hazardKeywords(DeclaredType(lastCall.report)) = << >>
                  => lastCall.keyword = 0

\* a description with three keywords of its type was scored: 45 capped at 40
C22_Witness ==
    /\ lastCall.called
    /\ KeywordCount[lastCall.report] = 3
    /\ lastCall.keyword = 40

\* C23: checkLocationCompatibility decides by the first region, in table
\* order, whose name occurs in the location name: true iff the type is in
\* that region's list, true when no region name occurs; the location
\* contribution is 30 when compatible and 0 otherwise.
C23_FirstRegion ==
    lastCall.called =>
        /\ checkLocationCompatibility(
               toLowerCase(LocationText(lastCall.report)),
               DeclaredType(lastCall.report))
             = Compatible(lastCall.report)
        /\ lastCall.location
             = (IF Compatible(lastCall.report) THEN 30 ELSE 0)

\* a location that names two regions was scored: the first in table order
\* does not allow the type, the other one does, and the contribution is 0
C23_Witness ==
    /\ lastCall.called
    /\ Cardinality(MatchingRegions[lastCall.report]) = 2
    /\ \E i \in MatchingRegions[lastCall.report] :
          DeclaredType(lastCall.report) \in locationData[i][2]
    /\ lastCall.location = 0

\* the report quickReport(10.0, 76.25) submits (lines 577-584): the store
\* has not given it an id yet
QuickCandidate ==
    Report(Undefined, Num(80), Num(610), "line_break",
           "Quick report from map click - LT line break detected",
           "Location at 10.0000, 76.2500")

\* C24 as the specification states it, on the path of submission: the
\* fallback score of the report quickReport submits counts the active
\* reports of its type within 0.5 degree of its own coordinates.
C24_AsStated ==
    \A p \in DOMAIN pass :
        (/\ pass[p].trigger = "quickReport"
         /\ pass[p].pc = "AwaitQuickAnalysis"
         /\ req[p].pc = "FallbackScored")
        => LET scored == fallbackReport(QuickCandidate.description,
                                        QuickCandidate.location_name)
               count == CorroboratingCount(QuickCandidate, currentHazards)
           IN  req[p].result.authenticityScore =
                 Num(Clamp(0, 100,
                           textScore[scored].keyword
                           + textScore[scored].location
                           + SaturatingStep(count)
                           + textScore[scored].length))

\* C25: the urgency of a fallback result depends on its score alone: "High"
\* from 80 on, "Medium" from 50 to 79, "Low" up to 49.
C25_Urgency ==
    /\ \A i \in RequestIds :
          req[i].pc = "FallbackScored" =>
              LET score == req[i].result.authenticityScore[1]
              IN  req[i].result.urgency
                    = (CASE score >= 80 -> "High"
                         [] score \in 50..79 -> "Medium"
                         [] score <= 49 -> "Low")
    /\ \A score \in 0..100 :
          /\ score >= 80 => urgency(score) = "High"
          /\ score \in 50..79 => urgency(score) = "Medium"
          /\ score <= 49 => urgency(score) = "Low"

\* a fallback result with the score 80, of urgency "High"
C25_Witness ==
    \E i \in RequestIds :
        /\ req[i].pc = "FallbackScored"
        /\ req[i].result.authenticityScore = Num(80)
        /\ req[i].result.urgency = "High"

\* the probe of this click on the refresh button got a 2xx response: only
\* then does checkBackendConnection show this notification (lines 13-16)
ProbeGot2xx(call) ==
    \E k \in 1..Len(call.shown) :
        call.shown[k] =
            Notification("AI Detection System connected successfully!",
                         "success")

\* C26 as the specification states it: once the probe of a click on the
\* refresh button has completed (its handler awaits the store and no other
\* probe has run since), backendConnected is true iff that probe got a 2xx
\* response.
C26_AsStated ==
    \A p \in DOMAIN pass :
        (pass[p].trigger = "refreshButton" /\ pass[p].pc = "AwaitStore")
        => (backendConnected = ProbeGot2xx(pass[p]))

\* the steps of quickReport before its refresh of the active set
BeforeRefresh == {"AwaitQuickAnalysis", "AwaitSubmit", "SubmitSettled"}

\* C27: in quickReport the request to the store is issued only when the
\* scoring request is terminal, and the refresh of the active set only when
\* the submission has succeeded; when it has failed the handler returns
\* without a refresh, and no step of quickReport before its refresh changes
\* the active set.
C27_Ordered ==
    /\ [](\A p \in DOMAIN pass :
            (pass[p].trigger = "quickReport" /\ pass[p].failed = "submit")
            => (pass[p].pc = "Done" /\ pass[p].log = << >>))
    /\ [][\A p \in DOMAIN pass :
            (pass[p].trigger = "quickReport" /\ pass'[p] # pass[p]) =>
              /\ pass'[p].pc = "AwaitSubmit" =>
                    (/\ pass[p].pc = "AwaitQuickAnalysis"
                     /\ req[p].pc \in Terminal)
              /\ pass'[p].pc = "AwaitStore" =>
                    (/\ pass[p].pc = "SubmitSettled"
                     /\ pass[p].answer.kind = "ok")
              /\ pass[p].pc \in BeforeRefresh =>
                    currentHazards' = currentHazards
              /\ (pass[p].pc = "SubmitSettled" /\ pass[p].answer.kind # "ok")
                    => pass'[p].pc = "Done"]_vars

\* a quickReport whose submission failed has returned, the active set held
\* reports, and the flag was set, so that the scoring request had been sent
\* to the analyzer
C27_Witness ==
    \E p \in DOMAIN pass :
        /\ pass[p].trigger = "quickReport"
        /\ pass[p].failed = "submit"
        /\ pass[p].pc = "Done"
        /\ req[p].outcome # "none"
        /\ currentHazards # << >>

\* C28 as the specification states it: a verify or reject request is sent
\* from the modal only for a report shown as pending, and one display of a
\* report sends at most one such request.
C28_AsStated ==
    /\ \A k \in 1..Len(modal.sent) : modal.sent[k].pending
    /\ \A k, l \in 1..Len(modal.sent) :
          modal.sent[k].display = modal.sent[l].display => k = l

\* every call has returned, and one at least was made
AllReturned ==
    /\ \A p \in DOMAIN pass : pass[p].pc \in {"Idle", "Done"}
    /\ \E p \in DOMAIN pass : pass[p].pc = "Done"

\* the call of fetchHazardData that started last (the calls are numbered in
\* the order they are made)
LastStarted ==
    CHOOSE p \in DOMAIN pass :
        /\ pass[p].pc # "Idle"
        /\ \A q \in DOMAIN pass : q > p => pass[q].pc = "Idle"

idsOf(seq) == [k \in 1..Len(seq) |-> seq[k].id]

\* the reports a call got: those of the store's answer, the samples when
\* the store failed
reportsOf(call) ==
    IF call.answer.kind = "error" THEN idsOf(sampleReports)
    ELSE idsOf(call.answer.reports)

\* C29 as the specification states it: once every overlapping call of
\* fetchHazardData has returned, the active set holds each report id once
\* and holds the reports of the call that started last.
C29_AsStated ==
    AllReturned =>
        /\ \A k, l \in 1..Len(currentHazards) :
              currentHazards[k].id = currentHazards[l].id => k = l
        /\ idsOf(currentHazards) = reportsOf(pass[LastStarted])

\* no call of the load balancer is in flight
LbQuiet ==
    \A c \in 1..Len(balancer.calls) : balancer.calls[c].pc = "Done"

\* C30 as the specification states it: with no call in flight,
\* state.redistributionCount is the number of redistribute requests that
\* got a 2xx response since the last successful resetSystem and
\* #redistributeBtn is enabled; a request that got a non-2xx response or a
\* network error leaves state.lines and state.redistributionCount as they
\* were.
C30_AsStated ==
    /\ [](LbQuiet =>
            /\ state.redistributionCount = balancer.received
            /\ ~balancer.btnDisabled)
    /\ [][\A c \in 1..Len(balancer.calls) :
            (/\ balancer.calls[c].pc = "FetchSettled"
             /\ balancer.calls[c].outcome # "ok"
             /\ balancer'.calls[c].pc = "Done")
            => /\ state'.lines = state.lines
               /\ state'.redistributionCount
                     = state.redistributionCount]_vars

=============================================================================
